---- MODULE Spec2Model ----
(***************************************************************************)
(* Model of the CurrencyConverter class of src/converter.py (the same      *)
(* class, line for line, is in src/converter_core.py): the history file,   *)
(* the in-memory history, the cached currency catalog and the steps of     *)
(* convert_currency.  The remote service, the file system and the clock    *)
(* are the environment: every answer they can give is a choice of \E.      *)
(*                                                                         *)
(* Abstractions: a symbol mapping is its set of keys; amounts and rates    *)
(* are integers standing for the floats of the program; a timestamp is     *)
(* the value of an integer clock.                                          *)
(***************************************************************************)
EXTENDS Integers, Sequences, FiniteSets, TLC

\* ------------------------------------------------------------------ bounds
\* number of conversion records one run may create (readings of the clock)
MaxClock == 2
\* longest list of target currencies handed to convert_currency
MaxTargets == 2

\* ------------------------------------------------------- program constants
\* "Keep only the last 10 conversions"
MAX_HISTORY == 10
\* the rate of a same-currency conversion, 1.0
SAME_RATE == 1

\* ------------------------------------------------------------ input domains
Codes == {"USD", "EUR", "XXX"}
\* the symbol mappings the service may answer with (key sets)
SymbolSets == {{}, {"USD", "EUR"}}
Amounts == {3}
\* the numbers the service may report as a rate
RateValues == {0, 2}

Count(seq, S) == Cardinality({k \in 1..Len(seq) : seq[k] \in S})
\* the targets of a list that the service may know: the records the call may
\* create, each with a reading of the clock
MayConvert(ts) == Count(ts, UNION SymbolSets)

\* ------------------------------------------------------ optional values
\* Python's None against a symbol mapping
NoCatalog == [none |-> TRUE, symbols |-> {}]
SomeCatalog(S) == [none |-> FALSE, symbols |-> S]
\* Python's None against a number
NoRate == [none |-> TRUE, value |-> 0]
SomeRate(v) == [none |-> FALSE, value |-> v]

\* truth value of "if currencies:" / "if not currencies:" - None and the
\* empty mapping are both false
Truthy(c) == ~c.none /\ c.symbols # {}

\* ------------------------------------------------------------- sequences
\* seq[-n:]
LastN(seq, n) == IF Len(seq) <= n THEN seq ELSE SubSeq(seq, Len(seq) - n + 1, Len(seq))
\* seq[:n]
FirstN(seq, n) == IF Len(seq) <= n THEN seq ELSE SubSeq(seq, 1, n)
Contains(seq, x) == \E k \in 1..Len(seq) : seq[k] = x
SeqsUpTo(S, n) == UNION {[1..k -> S] : k \in 0..n}

\* --------------------------------------------------------- history values
\* the value json.load returns / self.history holds: a dict with the key
\* "conversions" bound to a list, or any other JSON value (shape "other")
EmptyHistory == [shape |-> "conversions", conversions |-> <<>>]
OtherJson == [shape |-> "other", conversions |-> <<>>]

Record(b, t, a, c, r, ts) ==
    [base |-> b, target |-> t, amount |-> a, converted |-> c, rate |-> r, timestamp |-> ts]

\* ------------------------------------------------------------ history file
\* a JSON object of the file: the six members of a record, in dump order
\* fault: the amount is written as the converted amount
JsonObject_amount(rec) == <<rec.base, rec.target, rec.amount, rec.amount, rec.rate, rec.timestamp>>
JsonObject(rec) == <<rec.base, rec.target, rec.amount, rec.converted, rec.rate, rec.timestamp>>
FromJsonObject(o) == Record(o[1], o[2], o[3], o[4], o[5], o[6])

NoDoc == [shape |-> "other", conversions |-> <<>>]
MissingFile == [kind |-> "missing", doc |-> NoDoc]
\* exists, open() raises IOError
UnreadableFile == [kind |-> "unreadable", doc |-> NoDoc]
\* bytes that are not text of the locale's encoding
UndecodableFile == [kind |-> "undecodable", doc |-> NoDoc]
\* text that is not a JSON document (an empty or cut-off file included)
MalformedFile == [kind |-> "malformed", doc |-> NoDoc]
JsonFile(d) == [kind |-> "json", doc |-> d]

\* json.dump(self.history, f, indent=2)
json_dump(h) ==
    [shape |-> h.shape,
     conversions |-> [k \in 1..Len(h.conversions) |-> JsonObject(h.conversions[k])]]

\* json.load(f) of a well-formed document
json_load(d) ==
    [shape |-> d.shape,
     conversions |-> [k \in 1..Len(d.conversions) |-> FromJsonObject(d.conversions[k])]]

\* records a file found at startup may hold (written by an earlier run or
\* by hand): n records, oldest first, stamped before this run's clock
OldRecords(n) ==
    [k \in 1..n |-> Record("USD", "EUR", 3, 6, 2, k - n - 1)]
InitialLengths == {0, MAX_HISTORY - 1, MAX_HISTORY, MAX_HISTORY + 1}
InitialFiles ==
    {MissingFile, UnreadableFile, UndecodableFile, MalformedFile, JsonFile(OtherJson)}
    \cup {JsonFile(json_dump([shape |-> "conversions", conversions |-> OldRecords(n)])) :
            n \in InitialLengths}

\* _load_history: the value returned, or the exception that leaves it
_load_history(f) ==
    IF f.kind = "missing" THEN [raised |-> FALSE, value |-> EmptyHistory]
    ELSE IF f.kind \in {"unreadable", "malformed"} THEN [raised |-> FALSE, value |-> EmptyHistory]
    ELSE IF f.kind = "undecodable" THEN [raised |-> TRUE, value |-> EmptyHistory]
    ELSE [raised |-> FALSE, value |-> json_load(f.doc)]

\* _save_history: the file after the call, by what the file system does
SaveOutcomes == {"ok", "open_fails", "write_fails"}
\* fault: nothing is written
_save_history_skip(f, h, outcome) == f
_save_history(f, h, outcome) ==
    IF outcome = "open_fails" THEN f
    ELSE IF outcome = "write_fails" THEN MalformedFile
    ELSE JsonFile(json_dump(h))

\* ---------------------------------------------------------- remote service
\* answers to GET /symbols: a transport or HTTP error (RequestException),
\* or a JSON object with or without "success" and "symbols"
CatalogResponses ==
    {[raises |-> TRUE, success |-> FALSE, has_symbols |-> FALSE, symbols |-> {}]}
    \cup {[raises |-> FALSE, success |-> s, has_symbols |-> h, symbols |-> IF h THEN S ELSE {}] :
            s \in BOOLEAN, h \in BOOLEAN, S \in SymbolSets}

\* answers to GET /latest?base=..&symbols=t: an error, or a JSON object with
\* an optional success flag and optional rates for the code asked for
RateResponses(t) ==
    {[raises |-> TRUE, success |-> TRUE, has_rates |-> FALSE, rates |-> [c \in {} |-> 0]]}
    \cup {[raises |-> FALSE, success |-> FALSE, has_rates |-> TRUE, rates |-> [c \in {t} |-> v]] :
            v \in RateValues}
    \cup {[raises |-> FALSE, success |-> TRUE, has_rates |-> FALSE, rates |-> [c \in {} |-> 0]],
          [raises |-> FALSE, success |-> TRUE, has_rates |-> TRUE, rates |-> [c \in {} |-> 0]]}
    \cup {[raises |-> FALSE, success |-> TRUE, has_rates |-> TRUE, rates |-> [c \in {t} |-> v]] :
            v \in RateValues}

\* get_available_currencies: the value returned, the cache afterwards and
\* whether a request was sent
get_available_currencies(cache, resp) ==
    IF Truthy(cache)
    THEN [ret |-> cache, cache |-> cache, requested |-> FALSE]
    ELSE IF resp.raises
    THEN [ret |-> NoCatalog, cache |-> cache, requested |-> TRUE]
    ELSE IF resp.success /\ resp.has_symbols
    THEN [ret |-> SomeCatalog(resp.symbols), cache |-> SomeCatalog(resp.symbols),
          requested |-> TRUE]
    ELSE [ret |-> NoCatalog, cache |-> cache, requested |-> TRUE]

\* validate_currency, given what get_available_currencies returned
\* fault: no catalog, every code passes
validate_currency_open(currencies, code) ==
    IF ~Truthy(currencies) THEN TRUE ELSE code \in currencies.symbols
validate_currency(currencies, code) ==
    IF ~Truthy(currencies) THEN FALSE ELSE code \in currencies.symbols

\* get_exchange_rate: the rate of the answer, or None
get_exchange_rate(resp, target_currency) ==
    IF resp.raises THEN NoRate
    ELSE IF ~resp.success THEN NoRate
    ELSE IF resp.has_rates /\ target_currency \in DOMAIN resp.rates
    THEN SomeRate(resp.rates[target_currency])
    ELSE NoRate

\* ------------------------------------------------- pieces of convert_currency
\* "if base_currency == target_currency:"
\* fault: the branch is never taken
same_currency_never(b, t) == FALSE
same_currency(b, t) == b = t

\* "if rate is not None:"
\* fault: "if rate:" - a rate of 0 counts as no rate
rate_usable_truthy(rate) == ~rate.none /\ rate.value # 0
rate_usable(rate) == ~rate.none

\* the record of the same-currency branch
same_currency_result(b, t, a, ts) == Record(b, t, a, a, SAME_RATE, ts)

\* the record of a fetched rate
conversion_result(b, t, a, r, ts) == Record(b, t, a, a * r, r, ts)

\* "Keep only the last 10 conversions"
\* fault: convs[:10], the oldest are kept
keep_last_first(convs) ==
    IF Len(convs) > MAX_HISTORY THEN FirstN(convs, MAX_HISTORY) ELSE convs
keep_last(convs) ==
    IF Len(convs) > MAX_HISTORY THEN LastN(convs, MAX_HISTORY) ELSE convs

\* target_currencies = [c for c in target_currencies if c not in invalid_targets]
without_invalid(targets, invalid) ==
    LET keep(c) == ~Contains(invalid, c) IN SelectSeq(targets, keep)

\* ==================================================================== state
VARIABLES
    pc,                     \* where the process is: "new" before __init__, "ready",
                            \* in the for loop of convert_currency ("loop"), back
                            \* from it ("returned"), back from
                            \* display_available_currencies ("displayed"), or left
                            \* by an exception ("raised")
    file,                   \* conversion_history.json
    history,                \* self.history
    available_currencies,   \* self.available_currencies
    now,                    \* datetime.now()
    base_currency,          \* arguments and locals of convert_currency
    target_currencies,
    amount,
    invalid_targets,
    results,
    idx,                    \* position of the running list comprehension / for loop
    \* ---- observations of the running call, kept for the properties
    orig_targets,           \* the target_currencies argument as passed
    history0,               \* self.history when the call began
    file0,                  \* the file when the call began
    base_catalog,           \* what validate_currency(base_currency) saw as the catalog
    rate_requests,          \* requests for a rate sent by the call
    rate_log,               \* per target of the for loop: what happened to it
    saves,                  \* _save_history calls of the call
    last_get,               \* the last get_available_currencies call
    first_success,          \* the symbols of the first catalog fetch that succeeded
    last_rate,              \* the last get_exchange_rate call
    last_save,              \* the last _save_history call
    loaded,                 \* the _load_history call of __init__
    appended,               \* the records appended to self.history since __init__
    persisted               \* the history handed to the write that left the file
                            \* as it is, when a write of the program did

frame == <<base_currency, target_currencies, amount, invalid_targets, results, idx>>
observed == <<orig_targets, history0, file0, base_catalog, rate_requests, rate_log, saves>>
calls == <<last_get, first_success, last_rate, last_save>>
since_init == <<loaded, appended>>
vars == <<pc, file, history, available_currencies, now, frame, observed, calls, since_init,
          persisted>>

NoGet == [called |-> FALSE, after_success |-> FALSE, requested |-> FALSE, ret |-> NoCatalog]
NoRateCall == [called |-> FALSE, failed |-> FALSE, ret |-> NoRate]
NotLoaded == [done |-> FALSE, kind |-> "missing", shape |-> "other", raised |-> FALSE,
              value |-> EmptyHistory]
NothingPersisted == [valid |-> FALSE, history |-> EmptyHistory]
NoSave == [called |-> FALSE, outcome |-> "ok", file_kept |-> TRUE, written |-> FALSE]

\* at the menu of main, between two operations
Idle == pc = "ready"

\* a fresh process: nothing in memory yet
Fresh ==
    /\ history = EmptyHistory
    /\ available_currencies = NoCatalog
    /\ base_currency = "" /\ target_currencies = <<>> /\ amount = 0
    /\ invalid_targets = <<>> /\ results = <<>> /\ idx = 0
    /\ orig_targets = <<>> /\ history0 = EmptyHistory /\ file0 = MissingFile
    /\ base_catalog = NoCatalog /\ rate_requests = 0 /\ rate_log = <<>> /\ saves = 0
    /\ last_get = NoGet /\ first_success = NoCatalog
    /\ last_rate = NoRateCall /\ last_save = NoSave
    /\ loaded = NotLoaded /\ appended = <<>>

Init ==
    /\ pc = "new"
    /\ file \in InitialFiles
    /\ now = 0
    /\ persisted = NothingPersisted
    /\ Fresh

\* the observation of one get_available_currencies call, made when the
\* first successful fetch so far was fs
GetRecord(fs, g) ==
    [called |-> TRUE, after_success |-> ~fs.none, requested |-> g.requested, ret |-> g.ret]
FirstSuccess(fs, g) ==
    IF fs.none /\ g.requested /\ ~g.ret.none THEN g.ret ELSE fs
GetObserved(g) ==
    /\ last_get' = GetRecord(first_success, g)
    /\ first_success' = FirstSuccess(first_success, g)

\* ================================================================= actions
\* CurrencyConverter.__init__
Construct ==
    /\ pc = "new"
    /\ LET l == _load_history(file) IN
        /\ pc' = IF l.raised THEN "raised" ELSE "ready"
        /\ history' = l.value
        /\ loaded' = [done |-> TRUE, kind |-> file.kind, shape |-> file.doc.shape,
                      raised |-> l.raised, value |-> l.value]
    /\ available_currencies' = NoCatalog
    /\ UNCHANGED <<file, persisted, now, frame, observed, calls, appended>>

\* display_available_currencies
DisplayAvailableCurrencies(resp) ==
    /\ Idle
    /\ LET g == get_available_currencies(available_currencies, resp) IN
        /\ available_currencies' = g.cache
        /\ GetObserved(g)
    /\ pc' = "displayed"
    /\ UNCHANGED <<file, persisted, history, now, frame, observed, last_rate, last_save, since_init>>

\* show_history: prints, and raises when self.history has no list of
\* conversions to read
ShowHistory ==
    /\ Idle
    /\ pc' = IF history.shape # "conversions" THEN "raised" ELSE pc
    /\ UNCHANGED <<file, persisted, history, available_currencies, now, frame, observed, calls, since_init>>

\* convert_currency up to the for loop: the validation of the base currency,
\* the comprehension that collects invalid_targets (one validate_currency
\* call per target), their removal and the return when nothing is left.
\* resp is what the service answers to the catalog requests of the call.
ConvertStart(b, ts, a, resp) ==
    /\ Idle
    /\ now + MayConvert(ts) <= MaxClock
    /\ LET g == get_available_currencies(available_currencies, resp)
           base_valid == validate_currency(g.ret, b)
           \* the call made for each target, after the one for the base
           gt == get_available_currencies(g.cache, resp)
           fs == FirstSuccess(first_success, g)
           invalid(c) == ~validate_currency(gt.ret, c)
           invalids == SelectSeq(ts, invalid)
           remaining == IF invalids # <<>> THEN without_invalid(ts, invalids) ELSE ts IN
        /\ base_catalog' = g.ret
        /\ IF ~base_valid
           THEN /\ pc' = "returned"
                /\ available_currencies' = g.cache
                /\ GetObserved(g)
                /\ target_currencies' = ts
                /\ invalid_targets' = <<>>
           ELSE /\ pc' = IF remaining = <<>> THEN "returned" ELSE "loop"
                /\ available_currencies' = IF ts = <<>> THEN g.cache ELSE gt.cache
                /\ last_get' = IF ts = <<>> THEN GetRecord(first_success, g)
                                ELSE GetRecord(fs, gt)
                /\ first_success' = IF ts = <<>> THEN fs ELSE FirstSuccess(fs, gt)
                /\ target_currencies' = remaining
                /\ invalid_targets' = invalids
    /\ base_currency' = b /\ amount' = a
    /\ results' = <<>> /\ idx' = 1
    /\ orig_targets' = ts /\ history0' = history /\ file0' = file
    /\ rate_requests' = 0 /\ rate_log' = <<>> /\ saves' = 0
    /\ UNCHANGED <<file, persisted, history, now, last_rate, last_save, since_init>>

AfterTarget == IF idx = Len(target_currencies) THEN "returned" ELSE "loop"

\* an iteration of the for loop whose target is the base currency
ConvertSame ==
    /\ pc = "loop"
    /\ same_currency(base_currency, target_currencies[idx])
    /\ results' = Append(results,
                         same_currency_result(base_currency, target_currencies[idx], amount, now))
    /\ now' = now + 1
    /\ rate_log' = Append(rate_log, [fetched |-> FALSE, rate |-> NoRate])
    /\ idx' = idx + 1
    /\ pc' = AfterTarget
    /\ UNCHANGED <<file, persisted, history, available_currencies, base_currency, target_currencies,
                   amount, invalid_targets, orig_targets, history0, file0,
                   base_catalog, rate_requests, saves, calls, since_init>>

\* an iteration of the for loop that asks for a rate
ConvertFetch(resp, outcome) ==
    /\ pc = "loop"
    /\ ~same_currency(base_currency, target_currencies[idx])
    /\ LET target_currency == target_currencies[idx]
           rate == get_exchange_rate(resp, target_currency)
           result == conversion_result(base_currency, target_currency, amount, rate.value, now)
           kept == [history EXCEPT !.conversions = keep_last(Append(@, result))] IN
        /\ rate_requests' = rate_requests + 1
        /\ rate_log' = Append(rate_log, [fetched |-> TRUE, rate |-> rate])
        /\ last_rate' = [called |-> TRUE,
                         failed |-> \/ resp.raises
                                    \/ ~resp.success
                                    \/ ~resp.has_rates
                                    \/ target_currency \notin DOMAIN resp.rates,
                         ret |-> rate]
        /\ IF ~rate_usable(rate)
           THEN /\ pc' = AfterTarget
                /\ UNCHANGED <<file, persisted, history, now, results, saves, last_save, appended>>
           ELSE IF history.shape # "conversions"
           THEN \* self.history["conversions"] raises after results.append
                /\ pc' = "raised"
                /\ results' = Append(results, result)
                /\ now' = now + 1
                /\ UNCHANGED <<file, persisted, history, saves, last_save, appended>>
           ELSE /\ pc' = AfterTarget
                /\ results' = Append(results, result)
                /\ now' = now + 1
                /\ history' = kept
                /\ appended' = Append(appended, result)
                /\ file' = _save_history(file, kept, outcome)
                /\ saves' = saves + 1
                /\ persisted' = IF outcome = "ok"
                                 THEN [valid |-> TRUE, history |-> kept]
                                 ELSE IF outcome = "write_fails" THEN NothingPersisted
                                 ELSE persisted
                /\ last_save' = [called |-> TRUE, outcome |-> outcome,
                                 file_kept |-> (file' = file),
                                 written |-> (file' = JsonFile(json_dump(kept)))]
    /\ idx' = idx + 1
    /\ UNCHANGED <<available_currencies, base_currency, target_currencies, amount,
                   invalid_targets, orig_targets, history0, file0,
                   base_catalog, last_get, first_success, loaded>>

\* main takes what the operation returned and prints the menu again: the
\* locals of the call are gone
BackToMenu ==
    /\ pc \in {"returned", "displayed"}
    /\ pc' = "ready"
    /\ base_currency' = "" /\ target_currencies' = <<>> /\ amount' = 0
    /\ invalid_targets' = <<>> /\ results' = <<>> /\ idx' = 0
    /\ orig_targets' = <<>> /\ history0' = EmptyHistory /\ file0' = MissingFile
    /\ base_catalog' = NoCatalog /\ rate_requests' = 0 /\ rate_log' = <<>> /\ saves' = 0
    /\ last_get' = NoGet /\ last_rate' = NoRateCall /\ last_save' = NoSave
    /\ UNCHANGED <<file, persisted, history, available_currencies, now, first_success, since_init>>

\* the process ends (menu choice 4, or the exception that left it) and the
\* program is started again: memory is gone, the file and the clock stay
Exit ==
    /\ pc \in {"ready", "raised"}
    /\ pc' = "new"
    /\ history' = EmptyHistory
    /\ available_currencies' = NoCatalog
    /\ base_currency' = "" /\ target_currencies' = <<>> /\ amount' = 0
    /\ invalid_targets' = <<>> /\ results' = <<>> /\ idx' = 0
    /\ orig_targets' = <<>> /\ history0' = EmptyHistory /\ file0' = MissingFile
    /\ base_catalog' = NoCatalog /\ rate_requests' = 0 /\ rate_log' = <<>> /\ saves' = 0
    /\ last_get' = NoGet /\ first_success' = NoCatalog
    /\ last_rate' = NoRateCall /\ last_save' = NoSave
    /\ loaded' = NotLoaded /\ appended' = <<>>
    /\ UNCHANGED <<file, persisted, now>>

\* the answers the service can give to the catalog requests of the next
\* operation; when the cache answers, no request is sent and the choice is
\* immaterial
CatalogAnswers ==
    IF Truthy(available_currencies)
    THEN {CHOOSE r \in CatalogResponses : r.raises}
    ELSE CatalogResponses

Next ==
    \/ Construct
    \/ \E resp \in CatalogAnswers : DisplayAvailableCurrencies(resp)
    \/ ShowHistory
    \/ \E b \in Codes, ts \in SeqsUpTo(Codes, MaxTargets), a \in Amounts,
          resp \in CatalogAnswers : ConvertStart(b, ts, a, resp)
    \/ ConvertSame
    \/ BackToMenu
    \/ \E resp \in RateResponses(IF pc = "loop" THEN target_currencies[idx] ELSE "USD"),
          outcome \in SaveOutcomes : ConvertFetch(resp, outcome)
    \/ Exit

Spec == Init /\ [][Next]_vars

TypeOK ==
    /\ pc \in {"new", "ready", "loop", "returned", "displayed", "raised"}
    /\ now \in 0..MaxClock
    /\ idx \in 0..(MaxTargets + 1)

\* ============================================================== properties
\* a convert_currency call is running or has just returned
InCall == pc \in {"loop", "returned"}
\* the base currency passed the validation of the call
BaseValid == ~base_catalog.none /\ base_currency \in base_catalog.symbols
\* the records of the returned sequence that came from a fetched rate
Fetched(rs) == LET conv(r) == r.target # r.base IN SelectSeq(rs, conv)
\* seq ends with tail
EndsWith(seq, tail) ==
    /\ Len(tail) <= Len(seq)
    /\ SubSeq(seq, Len(seq) - Len(tail) + 1, Len(seq)) = tail

\* C1: once convert_currency has appended to the history, the history holds at
\* most 10 records and they are the last 10 (all, when fewer) of the loaded
\* records followed by the appended ones, in append order.
C1_HistoryKeepsLastTen ==
    appended # <<>> =>
        /\ Len(history.conversions) <= MAX_HISTORY
        /\ history.conversions = LastN(loaded.value.conversions \o appended, MAX_HISTORY)

\* the cap has evicted the oldest record of a history that was loaded short of it
C1_Witness ==
    /\ Len(loaded.value.conversions) = MAX_HISTORY - 1
    /\ Len(appended) >= 2
    /\ history.conversions[1] = loaded.value.conversions[2]

\* the targets of the argument that are keys of the catalog, in input order
ValidTargets ==
    LET known(c) == c \in base_catalog.symbols IN SelectSeq(orig_targets, known)

\* what the claim expects for the first k valid targets: one entry per target
\* that equals the base or whose fetch gave a rate
RECURSIVE ExpectedRecords(_)
ExpectedRecords(k) ==
    IF k = 0 THEN <<>>
    ELSE LET t == ValidTargets[k]
             e == rate_log[k] IN
         ExpectedRecords(k - 1) \o
            (IF t = base_currency
             THEN << [target |-> t, fetched |-> FALSE, rate |-> SAME_RATE] >>
             ELSE IF ~e.rate.none
             THEN << [target |-> t, fetched |-> TRUE, rate |-> e.rate.value] >>
             ELSE << >>)

\* C2: a call with a valid base returns one record per target occurrence that
\* is in the catalog and equals the base or had its rate fetched, in input
\* order; a fetched record carries the fetched rate and amount * rate; invalid
\* and failed targets add nothing to the result or the history and the
\* targets after them are still processed.
C2_ResultsPerTarget ==
    (pc = "returned" /\ BaseValid) =>
        /\ Len(rate_log) = Len(ValidTargets)
        /\ LET expected == ExpectedRecords(Len(ValidTargets)) IN
            /\ Len(results) = Len(expected)
            /\ \A k \in 1..Len(expected) :
                /\ results[k].base = base_currency
                /\ results[k].target = expected[k].target
                /\ results[k].amount = amount
                /\ expected[k].fetched =>
                    /\ results[k].rate = expected[k].rate
                    /\ results[k].converted = amount * expected[k].rate
        /\ history.conversions =
             IF Fetched(results) = <<>> THEN history0.conversions
             ELSE LastN(history0.conversions \o Fetched(results), MAX_HISTORY)

\* an invalid target, then a failed fetch, then a fetched rate of 0 - or any
\* other call in which a target was dropped and a later one was converted
C2_Witness ==
    /\ pc = "returned" /\ BaseValid
    /\ Len(orig_targets) > Len(ValidTargets)
    /\ \E k \in 1..Len(rate_log) : rate_log[k].fetched /\ ~rate_log[k].rate.none
                                   /\ rate_log[k].rate.value = 0
    /\ Len(results) = 1

\* C3 as stated: every returned record is among the most recent entries of
\* the history and the file holds the history when the call returns.
C3_EveryReturnedRecordInHistory ==
    (pc = "returned" /\ results # <<>>) =>
        /\ EndsWith(history.conversions, LastN(results, MAX_HISTORY))
        /\ file = JsonFile(json_dump(history))

\* C3 amended: every returned record of a fetched rate (target other than
\* base) is among the most recent entries of the history, _save_history ran
\* once per such record, the last one after the last append, and the file
\* holds the history if that write succeeded.
C3_FetchedRecordsInHistory ==
    (pc = "returned" /\ Fetched(results) # <<>>) =>
        /\ EndsWith(history.conversions, LastN(Fetched(results), MAX_HISTORY))
        /\ saves = Len(Fetched(results))
        /\ last_save.called
        /\ last_save.outcome = "ok" => file = JsonFile(json_dump(history))

\* a call returned a same-currency record and a fetched one, and the fetched
\* one was written to the file
C3_Witness ==
    /\ pc = "returned"
    /\ Len(results) = 2 /\ Len(Fetched(results)) = 1
    /\ last_save.called /\ last_save.outcome = "ok"
    /\ Len(history.conversions) = MAX_HISTORY

\* C4: a call whose base is not a key of the catalog, or that could not get
\* the catalog, returns at once with an empty result, the history and the
\* file as they were and no request for a rate sent.
C4_InvalidBaseReturnsEmpty ==
    (InCall /\ ~BaseValid) =>
        /\ pc = "returned"
        /\ results = <<>>
        /\ history = history0
        /\ file = file0
        /\ rate_requests = 0

\* a call with targets and a non-empty history was refused for its base
C4_Witness ==
    /\ pc = "returned" /\ ~BaseValid
    /\ ~base_catalog.none /\ base_catalog.symbols # {}
    /\ Contains(orig_targets, "EUR")
    /\ history.conversions # <<>>

\* C5 as stated: loading a missing, unreadable or malformed file (not JSON, not
\* decodable, or JSON of another shape) does not raise and gives the empty
\* history, and no later operation raises.
C5_LoadYieldsEmptyHistory ==
    (loaded.done /\ (loaded.kind # "json" \/ loaded.shape # "conversions")) =>
        /\ ~loaded.raised
        /\ loaded.value = EmptyHistory
        /\ pc # "raised"

\* C6 as stated: a _save_history call that fails leaves the file as it was.
C6_FailedSaveKeepsFile ==
    (last_save.called /\ last_save.outcome # "ok") => last_save.file_kept

\* C7 as stated: the history of a constructed instance never holds more than
\* 10 records.
C7_HistoryAtMostTen ==
    pc # "new" => Len(history.conversions) <= MAX_HISTORY

\* C8 as stated: after a catalog fetch that succeeded, get_available_currencies
\* sends no request and returns the catalog of that fetch.
C8_CatalogFetchedOnce ==
    (last_get.called /\ last_get.after_success) =>
        /\ ~last_get.requested
        /\ last_get.ret = first_success

\* C9 as stated: get_exchange_rate returns None for a failed request, an
\* unsuccessful answer or an answer without the rate, and a strictly positive
\* rate otherwise, which is the rate of the record.
C9_RatePositiveOrNone ==
    /\ last_rate.called =>
        /\ last_rate.failed => last_rate.ret.none
        /\ ~last_rate.failed => (~last_rate.ret.none /\ last_rate.ret.value > 0)
    /\ \A k \in 1..Len(results) :
         results[k].target # results[k].base => results[k].rate > 0

\* C10: convert(c, [c], a) with c in the catalog returns one record, with rate
\* 1.0 and converted = a, and sends no request for a rate.
C10_SameCurrency ==
    (InCall /\ BaseValid /\ orig_targets = <<base_currency>>) =>
        /\ rate_requests = 0
        /\ pc = "returned" =>
            /\ Len(results) = 1
            /\ results[1].base = base_currency
            /\ results[1].target = base_currency
            /\ results[1].amount = amount
            /\ results[1].rate = SAME_RATE
            /\ results[1].converted = amount

\* convert("EUR", ["EUR"], 3) has returned
C10_Witness ==
    /\ pc = "returned" /\ BaseValid
    /\ base_currency = "EUR" /\ orig_targets = <<"EUR">>
    /\ Len(results) = 1

====
